---- MODULE Spec2Model ----
(***************************************************************************)
(* A model of src/app.py, a Streamlit script: a template store (SQLite     *)
(* table `templates`), the seeding block that loads templates/*.txt, the   *)
(* Create / Edit / Delete sidebar modes, and the "Generate Prompts"        *)
(* handler (render_prompts, zip_output).                                   *)
(*                                                                         *)
(* Streamlit executes the whole script from line 1 on every interaction,   *)
(* so every action below is one complete script run: the seeding block     *)
(* (lines 38-51), the sidebar mode block (84-118), the main selection      *)
(* (121-124) and, when its button was clicked, the generation (126-142).   *)
(*                                                                         *)
(* Text is a sequence of one-character strings, so that str.replace,       *)
(* str.strip and str.endswith are computed as Python computes them.        *)
(***************************************************************************)
EXTENDS Integers, Sequences, FiniteSets, TLC

VARIABLES
    seedDir,    \* os.listdir(TEMPLATE_DIR) with each file's content, in listing order
    store,      \* rows of table `templates`: a set of [name, content]
    started,    \* the script has run at least once in this process
    mode,       \* value of the sidebar radio (widget state of the session)
    csv_file,   \* value of the file uploader (widget state of the session)
    error,      \* the uncaught exception that ended the latest script run
    msg,        \* the st.success / st.error message the latest run showed
    last,       \* the interaction that triggered the latest run, and its inputs
    outdir,     \* files of OUTPUT_DIR: a set of [name, text]
    uploaded,   \* DATA_DIR/uploaded.csv
    results,    \* st.session_state['results']
    zip,        \* ZIP_PATH
    row,        \* clean_row's argument (specification SpecClean)
    cleaned     \* clean_row's result   (specification SpecClean)

vars == <<seedDir, store, started, mode, csv_file, error, msg, last, outdir,
          uploaded, results, zip, row, cleaned>>

appVars == <<seedDir, store, started, mode, csv_file, error, msg, last, outdir,
             uploaded, results, zip>>

-----------------------------------------------------------------------------
(* Bounds of the model.                                                    *)

MaxSeedFiles == 2
MaxRows == 2
MaxKeyLen == 3
MaxCols == 2

-----------------------------------------------------------------------------
(* Python str operations on sequences of characters.                       *)

BOM == "BOM"
Whitespace == {" ", "\t"}
TXT == <<".", "t", "x", "t">>

RECURSIVE Replace(_, _)
\* str.replace(old, ''): every non-overlapping occurrence, left to right.
Replace(s, old) ==
    IF Len(s) < Len(old) THEN s
    ELSE IF SubSeq(s, 1, Len(old)) = old
         THEN Replace(SubSeq(s, Len(old) + 1, Len(s)), old)
         ELSE <<Head(s)>> \o Replace(Tail(s), old)

EndsWith(s, suffix) ==
    /\ Len(s) >= Len(suffix)
    /\ SubSeq(s, Len(s) - Len(suffix) + 1, Len(s)) = suffix

RECURSIVE LStrip(_)
LStrip(s) == IF s # <<>> /\ Head(s) \in Whitespace THEN LStrip(Tail(s)) ELSE s

RECURSIVE RStrip(_)
RStrip(s) ==
    IF s # <<>> /\ s[Len(s)] \in Whitespace THEN RStrip(SubSeq(s, 1, Len(s) - 1)) ELSE s

\* str.strip(): whitespace only; U+FEFF is not whitespace for Python.
Strip(s) == RStrip(LStrip(s))

RECURSIVE Concat(_)
Concat(ss) == IF ss = <<>> THEN <<>> ELSE Head(ss) \o Concat(Tail(ss))

Range(f) == {f[i] : i \in DOMAIN f}

-----------------------------------------------------------------------------
(* Template text: literal pieces, {{ field }} placeholders, and an         *)
(* unclosed "{{", which jinja2 rejects with TemplateSyntaxError.           *)

Lit(s) == [kind |-> "text", text |-> s]
Var(k) == [kind |-> "var", text |-> k]
Open == [kind |-> "open", text |-> <<>>]

Empty == <<>>
Hello == <<Lit(<<"H", "i", " ">>), Var(<<"N">>)>>
Broken == <<Lit(<<"H", "i", " ">>), Open>>

\* Contents a user can type in "Template Content"; Empty is the untouched area.
Contents == {Empty, Hello}

\* Contents a user can leave in "Edit Content".
EditContents == {Hello, Broken}

-----------------------------------------------------------------------------
(* The template store.                                                     *)

NewTemplate(name, content) == [name |-> name, content |-> content]

Names(st) == {t.name : t \in st}

\* session.query(PromptTemplate).filter_by(name=name).first()
ByName(st, name) == {t \in st : t.name = name}

\* existing_tpl.content = content
SetContent(st, name, content) ==
    {IF t.name = name THEN [t EXCEPT !.content = content] ELSE t : t \in st}

\* Column(String, unique=True): the INSERTs of a flush fail when a pending
\* name is already stored or is pending twice.
UniqueViolation(st, pending) ==
    \/ \E i \in DOMAIN pending : pending[i].name \in Names(st)
    \/ \E i, j \in DOMAIN pending : i # j /\ pending[i].name = pending[j].name

\* Commit with session.add(tpl) forgotten: nothing is inserted.
Commit_NoAdd(before, st, pending) == [ok |-> TRUE, store |-> st]

\* session.commit(): the pending INSERTs are flushed; on a violation the
\* transaction is rolled back to `before`.
Commit(before, st, pending) ==
    IF UniqueViolation(st, pending)
    THEN [ok |-> FALSE, store |-> before]
    ELSE [ok |-> TRUE, store |-> st \cup Range(pending)]

\* NameExists with the lookup never finding a row.
NameExists_Never(st, name) == FALSE

\* session.query(PromptTemplate).filter_by(name=new_name).first() is truthy
NameExists(st, name) == ByName(st, name) # {}

\* name = file.replace(".txt", "")
SeedName(file) == Replace(file, TXT)

\* fallback_files = [f for f in os.listdir(TEMPLATE_DIR) if f.endswith(".txt")]
RECURSIVE fallback_files(_)
fallback_files(dir) ==
    IF dir = <<>> THEN <<>>
    ELSE IF EndsWith(Head(dir).file, TXT)
         THEN <<Head(dir)>> \o fallback_files(Tail(dir))
         ELSE fallback_files(Tail(dir))

\* The loop of lines 41-50. existing_names is read once, before the loop.
RECURSIVE SeedLoop(_, _, _, _)
SeedLoop(files, existing_names, st, pending) ==
    IF files = <<>> THEN [st |-> st, pending |-> pending]
    ELSE LET name == SeedName(Head(files).file)
             content == Head(files).content
         IN  IF name \in existing_names
             THEN SeedLoop(Tail(files), existing_names,
                           SetContent(st, name, content), pending)
             ELSE SeedLoop(Tail(files), existing_names, st,
                           Append(pending, NewTemplate(name, content)))

\* Lines 38-51. A failed flush raises IntegrityError and rolls the whole
\* transaction back, the content updates included.
Seed(st, dir) ==
    LET r == SeedLoop(fallback_files(dir), Names(st), st, <<>>)
    IN  Commit(st, r.st, r.pending)

-----------------------------------------------------------------------------
(* Rows of the uploaded file, as csv.DictReader yields them: a dict, here  *)
(* the sequence of its items in insertion order. A key is a header (text)  *)
(* or None (DictReader's restkey, whose value is a list); a value is text, *)
(* None (restval of a short row) or a list.                                *)

StrV(s) == [t |-> "str", s |-> s]
NoneV == [t |-> "none", s |-> <<>>]
ListV == [t |-> "list", s |-> <<>>]

\* d[k] = v on a dict kept as a sequence of items: a key that is already
\* there keeps its place and takes the new value.
DictSet(d, k, v) ==
    IF \E i \in DOMAIN d : d[i].k = k
    THEN [i \in DOMAIN d |-> IF d[i].k = k THEN [k |-> k, v |-> v] ELSE d[i]]
    ELSE Append(d, [k |-> k, v |-> v])

\* The key expression of line 55: k.strip().replace(BOM, '') with BOM the character U+FEFF
CleanKey(k) == Replace(Strip(k), <<BOM>>)

\* The value expression of line 55: v.strip() if isinstance(v, str) else ''
CleanValue(v) == IF v.t = "str" THEN Strip(v.s) ELSE <<>>

RECURSIVE CleanItems(_, _)
CleanItems(items, acc) ==
    IF items = <<>> THEN acc
    ELSE LET it == Head(items)
         IN  IF it.k.t = "str"
             THEN CleanItems(Tail(items), DictSet(acc, CleanKey(it.k.s), CleanValue(it.v)))
             ELSE CleanItems(Tail(items), acc)

clean_row(r) == CleanItems(r, <<>>)

-----------------------------------------------------------------------------
(* Rendering and packing.                                                  *)

\* Template(template_str) raises TemplateSyntaxError on an unclosed "{{".
HasSyntaxError(template_str) == \E i \in DOMAIN template_str : template_str[i].kind = "open"

\* A placeholder with no matching key renders as '' (jinja2's Undefined).
Lookup(d, k) ==
    IF \E i \in DOMAIN d : d[i].k = k
    THEN (CHOOSE it \in Range(d) : it.k = k).v
    ELSE <<>>

\* t.render(**clean)
Render(template_str, clean) ==
    Concat([i \in DOMAIN template_str |->
               IF template_str[i].kind = "var"
               THEN Lookup(clean, template_str[i].text)
               ELSE template_str[i].text])

\* f"prompt_{idx}.txt"
FileName(idx) == [stem |-> "prompt_", n |-> idx, ext |-> ".txt"]

\* open(filepath, 'w').write(result): creates the file or replaces its text
WriteFile(dir, name, text) ==
    {f \in dir : f.name # name} \cup {[name |-> name, text |-> text]}

\* The loop of lines 61-69, from row number idx on.
RECURSIVE RenderLoop(_, _, _, _, _)
RenderLoop(template_str, rows, idx, dir, prompts) ==
    IF idx > Len(rows) THEN [ok |-> TRUE, dir |-> dir, prompts |-> prompts]
    ELSE IF HasSyntaxError(template_str)
         THEN [ok |-> FALSE, dir |-> dir, prompts |-> prompts]
         ELSE LET result == Render(template_str, clean_row(rows[idx]))
                  filename == FileName(idx)
              IN  RenderLoop(template_str, rows, idx + 1,
                             WriteFile(dir, filename, result),
                             Append(prompts, <<filename, result>>))

\* enumerate(reader, start=1)
render_prompts(template_str, rows, dir) == RenderLoop(template_str, rows, 1, dir, <<>>)

\* ClearOutputDir without the rmtree: only makedirs(exist_ok=True).
ClearOutputDir_Keep(dir) == dir

\* shutil.rmtree(OUTPUT_DIR); os.makedirs(OUTPUT_DIR, exist_ok=True)
ClearOutputDir(dir) == {}

\* An archive entry's name: a directory prefix ("" for none) and a file name.
ArcName(prefix, file) == [prefix |-> prefix, file |-> file]

\* zip_output without arcname=: the entry is named by file_path.
zip_output_Path(dir) ==
    [exists |-> TRUE,
     entries |-> {[arcname |-> ArcName("generated_prompts", f.name), data |-> f.text] : f \in dir}]

\* zipf.write(file_path, arcname=file) for every file of OUTPUT_DIR
zip_output(dir) ==
    [exists |-> TRUE,
     entries |-> {[arcname |-> ArcName("", f.name), data |-> f.text] : f \in dir}]

-----------------------------------------------------------------------------
(* Inputs.                                                                 *)

NameA == <<"a">>
FileA == NameA \o TXT
FileAA == NameA \o TXT \o TXT
FileDot == TXT
FileMd == <<"b", ".", "m", "d">>

\* The files that may lie in TEMPLATE_DIR, each with its content.
SeedFiles ==
    {[file |-> FileA, content |-> Hello],
     [file |-> FileAA, content |-> Broken],
     [file |-> FileDot, content |-> Hello],
     [file |-> FileMd, content |-> Hello]}

SeqsUpTo(S, n) == UNION {[1..k -> S] : k \in 0..n}

\* Directory listings: distinct files, in any order.
SeedDirs ==
    {d \in SeqsUpTo(SeedFiles, MaxSeedFiles) :
        \A i, j \in DOMAIN d : i # j => d[i].file # d[j].file}

\* What templates.db may hold when the process starts.
InitStores ==
    {{}, {NewTemplate(NameA, Broken)}}

\* Names a user can type in "Template Name"; <<>> is the untouched input.
InputNames == {<<>>, NameA}

RowA == <<[k |-> StrV(<<" ", "N">>), v |-> StrV(<<" ", "a", " ">>)]>>
RowB == <<[k |-> StrV(<<" ", "N">>), v |-> StrV(<<"b">>)], [k |-> NoneV, v |-> ListV]>>

NoFile == [some |-> FALSE, rows |-> <<>>]
\* The uploaded file with n data rows: RowA, RowB, RowA, ...
Csv(n) == [some |-> TRUE, rows |-> [i \in 1..n |-> IF i % 2 = 1 THEN RowA ELSE RowB]]
CsvFiles == {Csv(n) : n \in 0..MaxRows}

\* A file an earlier process left in OUTPUT_DIR.
StaleFile == [name |-> FileName(MaxRows + 1), text |-> <<"o", "l", "d">>]

NoResults == [set |-> FALSE, items |-> <<>>]
NoZip == [exists |-> FALSE, entries |-> {}]
NoChoice == [some |-> FALSE, name |-> <<>>]
Choice(n) == [some |-> TRUE, name |-> n]
NotCleaned == [done |-> FALSE, items |-> <<>>]

Event(op, choice, content, prev) ==
    [op |-> op, choice |-> choice, content |-> content, prev |-> prev]

-----------------------------------------------------------------------------
(* The script.                                                             *)

Init ==
    /\ seedDir \in SeedDirs
    /\ store \in InitStores
    /\ started = FALSE
    /\ mode = "Load"
    /\ csv_file = NoFile
    /\ error = "none"
    /\ msg = "none"
    /\ last = Event("init", NoChoice, Empty, -1)
    /\ outdir \in {{}, {StaleFile}}
    /\ uploaded = NoFile
    /\ results = NoResults
    /\ zip = NoZip
    /\ row = <<>>
    /\ cleaned = NotCleaned

\* Lines 99-103 with no template: names = [], the selectbox returns None,
\* selected_tpl is None and selected_tpl.content raises AttributeError.
EditCrashes(m, st) == m = "Edit" /\ st = {}

\* Which widgets the latest run rendered before it ended.
RadioShown == started /\ error # "IntegrityError"
MainShown == started /\ error \notin {"IntegrityError", "AttributeError"}
SaveShown == RadioShown /\ mode = "Create"
UpdateShown == MainShown /\ mode = "Edit"
DeleteShown == RadioShown /\ mode = "Delete"
GenerateShown == MainShown /\ store # {} /\ csv_file.some

\* A run in which no button is clicked: seeding, then the sidebar of mode m.
PlainRun(m, s) ==
    /\ store' = s.store
    /\ error' = IF ~s.ok THEN "IntegrityError"
                ELSE IF EditCrashes(m, s.store) THEN "AttributeError"
                ELSE "none"
    /\ msg' = "none"
    /\ UNCHANGED <<seedDir, outdir, uploaded, zip, row, cleaned>>

\* The first run of a browser session (the first of all is process start):
\* fresh widget state and session_state.
StartSession ==
    /\ started' = TRUE
    /\ mode' = "Load"
    /\ csv_file' = NoFile
    /\ results' = NoResults
    /\ last' = Event("start", NoChoice, Empty, -1)
    /\ PlainRun("Load", Seed(store, seedDir))

\* The user picks a mode on the sidebar radio.
SetMode(m) ==
    /\ RadioShown
    /\ mode' = m
    /\ last' = Event("view", NoChoice, Empty, -1)
    /\ PlainRun(m, Seed(store, seedDir))
    /\ UNCHANGED <<started, csv_file, results>>

\* The user puts a file into the uploader.
Upload(f) ==
    /\ MainShown
    /\ csv_file' = f
    /\ last' = Event("view", NoChoice, Empty, -1)
    /\ PlainRun(mode, Seed(store, seedDir))
    /\ UNCHANGED <<started, mode, results>>

\* "Save Template" (lines 89-96).
ClickSave(new_name, new_content) ==
    /\ SaveShown
    /\ last' = Event("save", Choice(new_name), new_content, -1)
    /\ LET s == Seed(store, seedDir)
       IN  IF ~s.ok
           THEN /\ store' = s.store
                /\ error' = "IntegrityError"
                /\ msg' = "none"
           ELSE IF new_name # <<>> /\ new_content # Empty
           THEN IF NameExists(s.store, new_name)
                THEN /\ store' = s.store
                     /\ error' = "none"
                     /\ msg' = "exists"
                ELSE LET c == Commit(s.store, s.store, <<NewTemplate(new_name, new_content)>>)
                     IN  /\ store' = c.store
                         /\ error' = IF c.ok THEN "none" ELSE "IntegrityError"
                         /\ msg' = IF c.ok THEN "saved" ELSE "none"
           ELSE /\ store' = s.store
                /\ error' = "none"
                /\ msg' = "none"
    /\ UNCHANGED <<seedDir, started, mode, csv_file, outdir, uploaded, results, zip,
                   row, cleaned>>

\* "Update Template" (lines 99-107); edit_choice is one of the names listed.
ClickUpdate(edit_choice, edited_content) ==
    /\ UpdateShown
    /\ LET s == Seed(store, seedDir)
       IN  IF ~s.ok \/ EditCrashes(mode, s.store)
           THEN /\ last' = Event("update", NoChoice, Empty, -1)
                /\ store' = s.store
                /\ error' = IF ~s.ok THEN "IntegrityError" ELSE "AttributeError"
                /\ msg' = "none"
           ELSE /\ edit_choice \in Names(s.store)
                /\ last' = Event("update", Choice(edit_choice), Empty, -1)
                /\ store' = SetContent(s.store, edit_choice, edited_content)
                /\ error' = "none"
                /\ msg' = "updated"
    /\ UNCHANGED <<seedDir, started, mode, csv_file, outdir, uploaded, results, zip,
                   row, cleaned>>

\* "Delete Template" (lines 110-118); delete_choice is one of the names
\* listed, or None when there is none.
ClickDelete(delete_choice) ==
    /\ DeleteShown
    /\ LET s == Seed(store, seedDir)
       IN  IF ~s.ok
           THEN /\ last' = Event("delete", NoChoice, Empty, -1)
                /\ store' = s.store
                /\ error' = "IntegrityError"
                /\ msg' = "none"
           ELSE IF s.store = {}
           THEN /\ last' = Event("delete", NoChoice, Empty, -1)
                /\ store' = s.store
                /\ error' = "none"
                /\ msg' = "none"
           ELSE /\ delete_choice \in Names(s.store)
                /\ last' = Event("delete", Choice(delete_choice), Empty, -1)
                /\ store' = s.store \ ByName(s.store, delete_choice)
                /\ error' = "none"
                /\ msg' = "deleted"
    /\ UNCHANGED <<seedDir, started, mode, csv_file, outdir, uploaded, results, zip,
                   row, cleaned>>

\* Number of prompts the session holds from its latest completed generation.
Held == IF results.set THEN Len(results.items) ELSE -1

\* "Generate Prompts" (lines 121-142); selected_name is one of the names listed.
ClickGenerate(selected_name) ==
    /\ GenerateShown
    /\ LET s == Seed(store, seedDir)
       IN  IF ~s.ok \/ EditCrashes(mode, s.store) \/ s.store = {}
           THEN /\ last' = Event("generate", NoChoice, Empty, Held)
                /\ store' = s.store
                /\ error' = IF ~s.ok THEN "IntegrityError"
                            ELSE IF EditCrashes(mode, s.store) THEN "AttributeError"
                            ELSE "none"
                /\ msg' = "none"
                /\ UNCHANGED <<outdir, uploaded, results, zip>>
           ELSE /\ selected_name \in Names(s.store)
                /\ LET selected_template == CHOOSE t \in s.store : t.name = selected_name
                       r == render_prompts(selected_template.content, csv_file.rows,
                                           ClearOutputDir(outdir))
                   IN  /\ last' = Event("generate", Choice(selected_name),
                                        selected_template.content, Held)
                       /\ store' = s.store
                       /\ uploaded' = csv_file
                       /\ outdir' = r.dir
                       /\ IF r.ok
                          THEN /\ results' = [set |-> TRUE, items |-> r.prompts]
                               /\ zip' = zip_output(r.dir)
                               /\ error' = "none"
                               /\ msg' = "generated"
                          ELSE /\ error' = "TemplateSyntaxError"
                               /\ msg' = "none"
                               /\ UNCHANGED <<results, zip>>
    /\ UNCHANGED <<seedDir, started, mode, csv_file, row, cleaned>>

TemplateNames == InputNames \cup {SeedName(f.file) : f \in SeedFiles}

View ==
    \/ StartSession
    \/ \E m \in {"Load", "Create", "Edit", "Delete"} : SetMode(m)

Manage ==
    \/ \E n \in InputNames, c \in Contents : ClickSave(n, c)
    \/ \E n \in TemplateNames, c \in EditContents : ClickUpdate(n, c)
    \/ \E n \in TemplateNames : ClickDelete(n)

Generate ==
    \/ \E f \in CsvFiles : Upload(f)
    \/ \E n \in TemplateNames : ClickGenerate(n)

Next == View \/ Manage \/ Generate

Spec == Init /\ [][Next]_vars

-----------------------------------------------------------------------------
(* clean_row on its own: Init draws a record, CleanRow applies the         *)
(* function. The application is idle.                                      *)

KeyChars == {" ", BOM, "N"}
Keys == {NoneV} \cup {StrV(k) : k \in SeqsUpTo(KeyChars, MaxKeyLen)}
Values == {StrV(<<" ", "v", " ">>), StrV(<<"v", BOM>>), NoneV, ListV}

\* Records: at most MaxCols items, with distinct keys.
Rows ==
    {r \in SeqsUpTo([k : Keys, v : Values], MaxCols) :
        \A i, j \in DOMAIN r : i # j => r[i].k # r[j].k}

InitClean ==
    /\ seedDir = <<>>
    /\ store = {}
    /\ started = FALSE
    /\ mode = "Load"
    /\ csv_file = NoFile
    /\ error = "none"
    /\ msg = "none"
    /\ last = Event("init", NoChoice, Empty, -1)
    /\ outdir = {}
    /\ uploaded = NoFile
    /\ results = NoResults
    /\ zip = NoZip
    /\ row \in Rows
    /\ cleaned = NotCleaned

CleanRow ==
    /\ ~cleaned.done
    /\ cleaned' = [done |-> TRUE, items |-> clean_row(row)]
    /\ UNCHANGED <<appVars, row>>

SpecClean == InitClean /\ [][CleanRow]_vars

-----------------------------------------------------------------------------
(* The claims.                                                             *)

UniqueNames(st) == \A t1, t2 \in st : t1.name = t2.name => t1 = t2

\* The filename with its extension stripped.
Stem(file) == SubSeq(file, 1, Len(file) - Len(TXT))

NoEdgeWhitespace(s) == s = <<>> \/ (s[1] \notin Whitespace /\ s[Len(s)] \notin Whitespace)

\* C1: in every reachable state no two templates have the same name, and
\* no run is aborted by the store's uniqueness constraint.
C1_UniqueNamesNoAbort == UniqueNames(store) /\ error # "IntegrityError"

\* C2, as claimed: every click on "Save Template" with a name that is in the
\* store shows the duplicate-name error and leaves the store unchanged.
C2_Original ==
    [][(last'.op = "save" /\ last'.choice.name \in Names(store))
          => (msg' = "exists" /\ error' = "none" /\ store' = store)]_vars

\* C2, amended: a click on "Save Template" with a non-empty name that is in
\* the store and a non-empty content shows the duplicate-name error and
\* leaves the store unchanged.
C2_DuplicateRejected ==
    [][(/\ last'.op = "save"
        /\ last'.choice.name # <<>>
        /\ last'.content # Empty
        /\ last'.choice.name \in Names(store))
          => (msg' = "exists" /\ error' = "none" /\ store' = store)]_vars

C2_Witness ==
    /\ last.op = "save"
    /\ msg = "exists"
    /\ \E t \in store : t.name = last.choice.name /\ t.content # last.content

\* C3: an Edit or Delete with nothing to address (the store is empty, the
\* selection is None) reports not-found, does not end the run with an
\* exception, and leaves the store unchanged.
C3_NotFoundReported ==
    [][/\ (mode' = "Edit" /\ store' = {} /\ error' # "IntegrityError")
            => error' = "none"
       /\ (last'.op \in {"update", "delete"} /\ ~last'.choice.some
             /\ error' # "IntegrityError")
            => (msg' = "not_found" /\ error' = "none" /\ store' = store)]_vars

\* C4: after a run that only seeds (every one of them: the first and the
\* following), the store holds exactly one template per .txt file, named by
\* the filename without its extension and holding the file's content, and
\* the templates with no seed file are as before.
C4_SeededPerFile ==
    [][last'.op \in {"start", "view"}
          => LET files == Range(fallback_files(seedDir))
             IN  /\ \A f \in files :
                       ByName(store', Stem(f.file)) = {NewTemplate(Stem(f.file), f.content)}
                 /\ \A t \in store :
                       t.name \notin {Stem(f.file) : f \in files} => t \in store']_vars

\* C5: a template deleted with success stays deleted. Stated for the first
\* run after the Delete in the same browser session: the name is in the
\* store at the end of that run only if the run is a Create of that name
\* that succeeded.
C5_DeletedStaysDeleted ==
    [][(last.op = "delete" /\ msg = "deleted" /\ last'.op # "start")
          => \/ last.choice.name \notin Names(store')
             \/ (/\ last'.op = "save"
                 /\ msg' = "saved"
                 /\ last'.choice.name = last.choice.name)]_vars

\* C6: after a generation run, whatever the run before it wrote and
\* whatever lay in the output directory, the directory holds only files of
\* this run: prompt_1.txt .. prompt_N.txt when it completed over N rows.
C6_OnlyThisRun ==
    (last.op = "generate" /\ last.choice.some /\ error # "IntegrityError")
        => LET written == {FileName(i) : i \in 1..Len(csv_file.rows)}
           IN  /\ {f.name : f \in outdir} \subseteq written
               /\ error = "none" => {f.name : f \in outdir} = written

\* The second of two runs completed over fewer rows than the first.
C6_Witness ==
    /\ last.op = "generate"
    /\ msg = "generated"
    /\ last.prev > Len(csv_file.rows)
    /\ Cardinality(outdir) = Len(csv_file.rows)

\* C7: after a generation run completed over N rows, the results, the
\* output directory and the archive are exactly prompt_1.txt .. prompt_N.txt
\* with the rendering of row i in entry i; archive names have no directory.
C7_RunOutputs ==
    (last.op = "generate" /\ msg = "generated")
        => LET N == Len(csv_file.rows)
               text(i) == Render(last.content, clean_row(csv_file.rows[i]))
           IN  /\ results = [set |-> TRUE,
                             items |-> [i \in 1..N |-> <<FileName(i), text(i)>>]]
               /\ outdir = {[name |-> FileName(i), text |-> text(i)] : i \in 1..N}
               /\ zip = [exists |-> TRUE,
                         entries |-> {[arcname |-> ArcName("", FileName(i)),
                                       data |-> text(i)] : i \in 1..N}]

\* Two rows rendered with "Hi {{ N }}": "Hi a" and "Hi b", in that order.
C7_Witness ==
    /\ last.op = "generate"
    /\ msg = "generated"
    /\ last.content = Hello
    /\ Len(results.items) = 2
    /\ results.items[1] = <<FileName(1), <<"H", "i", " ", "a">>>>
    /\ results.items[2] = <<FileName(2), <<"H", "i", " ", "b">>>>
    /\ Cardinality(zip.entries) = 2

\* C8: clean_row's keys have no whitespace at either end and no byte-order
\* mark; values of text are trimmed, other values are ''; items whose key is
\* not text are dropped.
C8_CleanRow ==
    cleaned.done
        => /\ \A i \in DOMAIN cleaned.items :
                 /\ NoEdgeWhitespace(cleaned.items[i].k)
                 /\ BOM \notin Range(cleaned.items[i].k)
                 /\ \E j \in DOMAIN row :
                       /\ row[j].k.t = "str"
                       /\ cleaned.items[i].v =
                             IF row[j].v.t = "str" THEN Strip(row[j].v.s) ELSE <<>>
           /\ Len(cleaned.items) <= Cardinality({j \in DOMAIN row : row[j].k.t = "str"})
           /\ (\E j \in DOMAIN row : row[j].k.t = "str") => cleaned.items # <<>>

\* C9: a generation with a template that is not valid ends with
\* TemplateSyntaxError and yields no results, whatever the data file.
C9_SyntaxErrorRaised ==
    (last.op = "generate" /\ last.choice.some /\ HasSyntaxError(last.content))
        => (error = "TemplateSyntaxError" /\ msg # "generated")

\* C10, as claimed: every click on "Save Template" with a name that is not
\* in the store succeeds and adds exactly that template.
C10_Original ==
    [][(last'.op = "save" /\ last'.choice.name \notin Names(store))
          => (/\ msg' = "saved"
              /\ ByName(store', last'.choice.name)
                    = {[name |-> last'.choice.name, content |-> last'.content]}
              /\ store' \ ByName(store', last'.choice.name) = store)]_vars

\* C10, amended: a click on "Save Template" with a non-empty name that is
\* not in the store and a non-empty content succeeds; the store then holds
\* exactly one template of that name, with that content, and the others are
\* unchanged.
C10_CreateAdds ==
    [][(/\ last'.op = "save"
        /\ last'.choice.name # <<>>
        /\ last'.content # Empty
        /\ last'.choice.name \notin Names(store))
          => (/\ msg' = "saved"
              /\ error' = "none"
              /\ ByName(store', last'.choice.name)
                    = {[name |-> last'.choice.name, content |-> last'.content]}
              /\ store' \ ByName(store', last'.choice.name) = store)]_vars

C10_Witness ==
    /\ last.op = "save"
    /\ msg = "saved"
    /\ [name |-> last.choice.name, content |-> last.content] \in store
    /\ Cardinality(store) >= 2

====
